---- MODULE Spec2Model ----
(***************************************************************************)
(* Model of nheko's src/EventAccessors.cpp: the field projections over the *)
(* mtx::events::collections::TimelineEvents variant, the set_relations     *)
(* mutator and the aspect-ratio helper.                                    *)
(*                                                                         *)
(* An event is a record; its content is a record whose DOMAIN is the set   *)
(* of data members of the content type, so that a compile-time probe       *)
(* `requires { T::m; }` is `"m" \in DOMAIN e.content`.  std::optional<X>   *)
(* is a sequence of length 0 or 1; uint64_t is four 16-bit limbs, most     *)
(* significant first, so that the conversion of -1 keeps its width.        *)
(***************************************************************************)
EXTENDS Integers, Sequences, FiniteSets, TLC

\* ------------------------------------------------------------------ bounds
\* stored media dimensions, durations and sizes range over 0..MaxDim
MaxDim == 1
\* an SDP offer is a marker candidate with at most MaxPad characters
\* before it and at most MaxPad characters after it
MaxPad == 1

\* ------------------------------------------------------- unsigned 64 bit
LimbBase == 65536

U64Limbs == 4

\* the uint64_t holding the small natural n
U64(n) == [i \in 1..U64Limbs |-> IF i = U64Limbs THEN n ELSE 0]

\* conversion of the int i to uint64_t (i modulo 2^64), for -LimbBase <= i < LimbBase
ToU64(i) ==
    IF i >= 0 THEN U64(i)
    ELSE [k \in 1..U64Limbs |-> IF k = U64Limbs THEN LimbBase + i ELSE LimbBase - 1]

U64IsZero(u) == \A i \in 1..U64Limbs : u[i] = 0

\* ---------------------------------------------------------- std::optional
nullopt == <<>>

Some(v) == <<v>>

has_value(o) == Len(o) > 0

\* ------------------------------------------------------------ the catalog
\* mtx::crypto::EncryptedFile, reduced to the url this file reads
EncryptedFiles == { [url |-> "mxc://enc"] }

\* mtx::common::Relations values
EmptyRelations == <<>>

RelValues ==
    { EmptyRelations,
      << [rel_type |-> "m.in_reply_to", event_id |-> "$r"] >>,
      << [rel_type |-> "m.replace", event_id |-> "$o"] >> }

Bodies == { "", "doc.pdf" }

Urls == { "", "mxc://plain" }

Dims == { U64(n) : n \in 0..MaxDim }

HtmlFormat == "org.matrix.custom.html"

Formats == { "", HtmlFormat, "org.matrix.custom.HTML" }

FormattedBodies == { "", "<b>hi</b>" }

OptFiles == { nullopt } \cup { Some(f) : f \in EncryptedFiles }

\* the content types (and the event class template each is wrapped in) held
\* by TimelineEvents.  "ext::WidthOnly" is not a type of today's catalog: it
\* is a content shape a later catalog may add, whose info has w but no h;
\* the operator() templates are instantiated for whatever the catalog holds.
Family ==
    [ state_Name |-> "StateEvent", state_Topic |-> "StateEvent",
      state_Member |-> "StateEvent", state_Avatar |-> "StateEvent",
      msg_Text |-> "RoomEvent", msg_Image |-> "RoomEvent",
      msg_Audio |-> "RoomEvent", msg_Video |-> "RoomEvent",
      msg_File |-> "RoomEvent", msg_Reaction |-> "RoomEvent",
      msg_KeyVerificationRequest |-> "RoomEvent",
      voip_CallInvite |-> "RoomEvent", voip_CallHangUp |-> "RoomEvent",
      msg_Encrypted |-> "EncryptedEvent", msg_Redaction |-> "RedactionEvent",
      Sticker |-> "Sticker", ext_WidthOnly |-> "RoomEvent" ]

Types == DOMAIN Family

\* the base class of each event class template; Event<T> is the root
Base ==
    [ StateEvent |-> "RoomEvent", EncryptedEvent |-> "RoomEvent",
      RedactionEvent |-> "RoomEvent", Sticker |-> "RoomEvent",
      RoomEvent |-> "Event" ]

\* the members of the content type declared std::optional<std::string>
OptionalStringMembers(T) ==
    IF T = "msg_KeyVerificationRequest" THEN { "body", "msgtype" } ELSE {}

OptStrings(S) == { nullopt } \cup { Some(s) : s \in S }

\* the SDP offers: a marker candidate between two paddings
PadChars == { "m", "O" }

RECURSIVE SeqsUpTo(_, _)
SeqsUpTo(S, n) ==
    IF n = 0 THEN { <<>> }
    ELSE LET shorter == SeqsUpTo(S, n - 1)
         IN  shorter \cup { Append(s, c) : s \in shorter, c \in S }

Pads == SeqsUpTo(PadChars, MaxPad)

Markers ==
    { <<>>,
      << "m", "=", "v", "i", "d", "e", "o" >>,
      << "M", "=", "V", "I", "D", "E", "O" >>,
      << "m", "=", "V", "i", "d", "e", "o" >>,
      << "m", "=", "a", "u", "d", "i", "o" >>,
      << "m", "=", "v", "i", "d", "e" >>,
      << "=", "v", "i", "d", "e", "o" >>,
      << "m", "-", "v", "i", "d", "e", "o" >> }

\* std::string values read character by character are sequences of characters
Sdps == { pre \o mid \o suf : pre \in Pads, mid \in Markers, suf \in Pads }

ImageInfos ==
    [ h : Dims, w : Dims, size : { 0 }, mimetype : { "image/png" },
      thumbnail_url : Urls, thumbnail_file : OptFiles, blurhash : { "LKO2" } ]

VideoInfos ==
    [ h : Dims, w : Dims, size : { 1 }, duration : { U64(1) },
      mimetype : { "video/mp4" }, thumbnail_url : { "mxc://plain" },
      thumbnail_file : OptFiles, blurhash : { "" } ]

AudioInfos == [ size : { MaxDim }, duration : Dims, mimetype : { "audio/ogg" } ]

FileInfos ==
    [ size : { 1 }, mimetype : { "application/pdf" },
      thumbnail_url : { "" }, thumbnail_file : OptFiles ]

StickerInfos ==
    { i \in ImageInfos : i.h = U64(MaxDim) /\ i.w = U64(0) /\ i.thumbnail_url = "" }

\* the values of the content type T
Contents(T) ==
    CASE T = "state_Name" -> [ name : { "", "Room" } ]
      [] T = "state_Topic" -> [ topic : { "", "Topic" } ]
      [] T = "state_Member" ->
            [ membership : { "join", "leave" }, display_name : { "Al" } ]
      [] T = "state_Avatar" -> [ url : Urls ]
      [] T = "msg_Text" ->
            [ body : Bodies, msgtype : { "m.text", "x.custom" }, format : Formats,
              formatted_body : FormattedBodies,
              relations : { r \in RelValues : Len(r) = 0 \/ r[1].rel_type = "m.replace" } ]
      [] T = "msg_Image" ->
            [ body : { "cat.png" }, msgtype : { "m.image" }, url : Urls,
              info : ImageInfos, file : OptFiles, relations : { EmptyRelations } ]
      [] T = "msg_Audio" ->
            [ body : Bodies, msgtype : { "m.audio" }, url : { "mxc://plain" },
              info : AudioInfos, file : OptFiles, relations : { EmptyRelations } ]
      [] T = "msg_Video" ->
            [ body : { "clip.mp4" }, msgtype : { "m.video" }, url : { "" },
              info : VideoInfos, file : { nullopt }, relations : { EmptyRelations } ]
      [] T = "msg_File" ->
            [ body : Bodies, filename : { "", "real.pdf" }, msgtype : { "m.file" },
              url : { "mxc://plain" }, info : FileInfos, file : OptFiles,
              relations : { EmptyRelations } ]
      [] T = "msg_Reaction" ->
            [ relations : { << [rel_type |-> "m.annotation", event_id |-> "$o"] >> } ]
      [] T = "msg_KeyVerificationRequest" ->
            [ body : OptStrings({ "", "verify" }),
              msgtype : OptStrings({ "m.key.verification.request", "x.custom" }),
              from_device : { "DEV" } ]
      [] T = "voip_CallInvite" ->
            [ call_id : { "c1" }, offer : [ sdp : Sdps, type : { "offer" } ] ]
      [] T = "voip_CallHangUp" -> [ call_id : { "c1" }, reason : { "user_hangup" } ]
      [] T = "msg_Encrypted" ->
            [ algorithm : { "m.megolm.v1.aes-sha2" }, ciphertext : { "AwgA" },
              relations : { EmptyRelations } ]
      [] T = "msg_Redaction" -> [ reason : { "", "spam" } ]
      [] T = "Sticker" ->
            [ body : { "wave" }, url : Urls, info : StickerInfos,
              relations : { EmptyRelations } ]
      [] T = "ext_WidthOnly" ->
            [ body : Bodies, info : [ w : Dims, size : { 0 } ] ]

\* the events of content type T: the members every Event<T>/RoomEvent<T>
\* carries, and state_key on the StateEvent<T> ones
Events(T) ==
    IF Family[T] = "StateEvent"
    THEN [ type : { T }, content : Contents(T), event_id : { "$e" },
           room_id : { "!r" }, sender : { "@s" }, origin_server_ts : { 1234 },
           unsigned_data : [ transaction_id : { "" } ], state_key : { "" } ]
    ELSE [ type : { T }, content : Contents(T), event_id : { "$e" },
           room_id : { "!r" }, sender : { "@s" }, origin_server_ts : { 1234 },
           unsigned_data :
               [ transaction_id : IF T = "msg_Reaction" THEN { "", "txn1" } ELSE { "txn1" } ] ]

\* ------------------------------------------------------ overload resolution
\* number of derived-to-base steps from class template F to B, -1 if B is
\* not F nor a base of F
RECURSIVE Distance(_, _)
Distance(F, B) ==
    IF F = B THEN 0
    ELSE IF F \in DOMAIN Base
         THEN LET d == Distance(Base[F], B) IN IF d < 0 THEN -1 ELSE d + 1
         ELSE -1

\* the candidate among the operator() templates taking C<T> const&, C in
\* Cands, that the call with event e selects: the viable one reached by the
\* fewest derived-to-base steps
Overload(e, Cands) ==
    LET F == Family[e.type]
        viable == { C \in Cands : Distance(F, C) >= 0 }
    IN  CHOOSE C \in viable : \A D \in viable : Distance(F, C) <= Distance(F, D)

\* --------------------------------------------------------------- results
Ret(v) == [ status |-> "ok", val |-> v ]

Throw(x) == [ status |-> "throw", val |-> x ]

\* mtx::events::getMessageType: the fixed msgtype string -> MessageType table
getMessageType(s) ==
    CASE s = "m.audio" -> "Audio"
      [] s = "m.emote" -> "Emote"
      [] s = "m.file" -> "File"
      [] s = "m.image" -> "Image"
      [] s = "m.notice" -> "Notice"
      [] s = "m.text" -> "Text"
      [] s = "m.video" -> "Video"
      [] s = "m.key.verification.request" -> "KeyVerificationRequest"
      [] OTHER -> "Unknown"

\* ------------------------------------------------------------ the visitors
\* slip: the first overload written for RoomEvent<T> instead of StateEvent<T>
IsStateEvent_RoomEvent(e) == Overload(e, { "RoomEvent", "Event" }) = "RoomEvent"

IsStateEvent(e) == Overload(e, { "StateEvent", "Event" }) = "StateEvent"

EventMsgType(e) ==
    IF "msgtype" \in DOMAIN e.content /\ "msgtype" \in OptionalStringMembers(e.type)
    THEN \* e.content.msgtype.value()
         IF has_value(e.content.msgtype)
         THEN Ret(getMessageType(e.content.msgtype[1]))
         ELSE Throw("std::bad_optional_access")
    ELSE IF "msgtype" \in DOMAIN e.content
         THEN Ret(getMessageType(e.content.msgtype))
         ELSE Ret("Unknown")

EventRoomName(e) ==
    IF Family[e.type] = "StateEvent" /\ e.type = "state_Name"
    THEN e.content.name ELSE ""

EventRoomTopic(e) ==
    IF Family[e.type] = "StateEvent" /\ e.type = "state_Topic"
    THEN e.content.topic ELSE ""

\* std::tolower in the "C" locale
UpperToLower ==
    [ A |-> "a", B |-> "b", C |-> "c", D |-> "d", E |-> "e", F |-> "f",
      G |-> "g", H |-> "h", I |-> "i", J |-> "j", K |-> "k", L |-> "l",
      M |-> "m", N |-> "n", O |-> "o", P |-> "p", Q |-> "q", R |-> "r",
      S |-> "s", T |-> "t", U |-> "u", V |-> "v", W |-> "w", X |-> "x",
      Y |-> "y", Z |-> "z" ]

tolower(c) == IF c \in DOMAIN UpperToLower THEN UpperToLower[c] ELSE c

\* slip: the characters compared as they are
CallTypePred_CaseSensitive(c1, c2) == c1 = c2

\* the predicate CallType hands to std::search
CallTypePred(c1, c2) == tolower(c1) = tolower(c2)

\* the inner loop of std::search: compare needle[j..] with hay[i..]
RECURSIVE SearchAt(_, _, _, _)
SearchAt(hay, i, needle, j) ==
    IF j > Len(needle) THEN "found"
    ELSE IF i > Len(hay) THEN "last"
    ELSE IF CallTypePred(hay[i], needle[j]) THEN SearchAt(hay, i + 1, needle, j + 1)
    ELSE "mismatch"

\* std::search(hay, needle, pred) from position first: the position of the
\* first match, Len(hay) + 1 (the end iterator) when there is none
RECURSIVE search(_, _, _)
search(hay, first, needle) ==
    LET r == SearchAt(hay, first, needle, 1)
    IN  IF r = "found" THEN first
        ELSE IF r = "last" THEN Len(hay) + 1
        ELSE search(hay, first + 1, needle)

\* const char video[] = "m=video", without its terminating NUL
video == << "m", "=", "v", "i", "d", "e", "o" >>

CallType(e) ==
    IF Family[e.type] = "RoomEvent" /\ e.type = "voip_CallInvite"
    THEN LET sdp == e.content.offer.sdp
         IN  IF search(sdp, 1, video) # Len(sdp) + 1 THEN "video" ELSE "voice"
    ELSE ""

EventBody(e) ==
    IF "body" \in DOMAIN e.content /\ "body" \in OptionalStringMembers(e.type)
    THEN IF has_value(e.content.body) THEN e.content.body[1] ELSE ""
    ELSE IF "body" \in DOMAIN e.content THEN e.content.body
    ELSE ""

\* slip: the format marker not consulted
EventFormattedBody_AnyFormat(e) ==
    IF "formatted_body" \in DOMAIN e.content THEN e.content.formatted_body ELSE ""

EventFormattedBody(e) ==
    IF "formatted_body" \in DOMAIN e.content /\ e.content.format = HtmlFormat
    THEN e.content.formatted_body
    ELSE ""

EventFile(e) ==
    IF "file" \in DOMAIN e.content THEN e.content.file ELSE nullopt

EventThumbnailFile(e) ==
    IF "thumbnail_file" \in DOMAIN e.content
    THEN e.content.info.thumbnail_file
    ELSE nullopt

EventUrl(e) ==
    IF "url" \in DOMAIN e.content
    THEN LET file == EventFile(e)
         IN  IF has_value(file) THEN file[1].url ELSE e.content.url
    ELSE ""

\* requires { e.content.info.m; }
HasInfo(e, m) == "info" \in DOMAIN e.content /\ m \in DOMAIN e.content.info

EventThumbnailUrl(e) ==
    IF HasInfo(e, "thumbnail_url")
    THEN LET file == EventThumbnailFile(e)
         IN  IF has_value(file) THEN file[1].url ELSE e.content.info.thumbnail_url
    ELSE ""

EventDuration(e) ==
    IF HasInfo(e, "duration") THEN e.content.info.duration ELSE ToU64(0)

EventBlurhash(e) ==
    IF HasInfo(e, "blurhash") THEN e.content.info.blurhash ELSE ""

\* slip: the file overload without the fallback to the body
EventFilename_NoFallback(e) ==
    IF Family[e.type] = "RoomEvent" /\ e.type \in { "msg_Audio", "msg_Video", "msg_Image" }
    THEN e.content.body
    ELSE IF Family[e.type] = "RoomEvent" /\ e.type = "msg_File"
    THEN e.content.filename
    ELSE ""

EventFilename(e) ==
    IF Family[e.type] = "RoomEvent" /\ e.type \in { "msg_Audio", "msg_Video", "msg_Image" }
    THEN e.content.body
    ELSE IF Family[e.type] = "RoomEvent" /\ e.type = "msg_File"
    THEN IF e.content.filename # "" THEN e.content.filename ELSE e.content.body
    ELSE ""

EventMimeType(e) ==
    IF HasInfo(e, "mimetype") THEN e.content.info.mimetype ELSE ""

EventFilesize(e) ==
    IF HasInfo(e, "size") THEN e.content.info.size ELSE 0

EventRelations(e) ==
    IF "relations" \in DOMAIN e.content THEN e.content.relations ELSE EmptyRelations

\* slip: the assignment made without the probe
SetEventRelations_Unprobed(e, new_relations) ==
    [ e EXCEPT !.content = [ relations |-> new_relations ] @@ @ ]

\* slip: the new relations appended to the old ones
SetEventRelations_Append(e, new_relations) ==
    IF "relations" \in DOMAIN e.content
    THEN [ e EXCEPT !.content.relations = @ \o new_relations ]
    ELSE e

\* the event after SetEventRelations{new_relations}(e)
SetEventRelations(e, new_relations) ==
    IF "relations" \in DOMAIN e.content
    THEN [ e EXCEPT !.content.relations = new_relations ]
    ELSE e

EventTransactionId(e) ==
    IF Overload(e, { "RoomEvent", "Event" }) = "RoomEvent"
    THEN e.unsigned_data.transaction_id
    ELSE e.unsigned_data.transaction_id

EventMediaHeight(e) ==
    IF HasInfo(e, "h") THEN e.content.info.h ELSE ToU64(-1)

EventMediaWidth(e) ==
    IF HasInfo(e, "h") THEN e.content.info.w ELSE ToU64(-1)

\* ------------------------------------------------------------ aspect ratio
\* a double: the quotient num/den of two uint64_t, an infinity or a NaN
Finite(n, d) == [ kind |-> "finite", num |-> n, den |-> d ]

\* n / (double)d
DoubleDiv(n, d) ==
    IF U64IsZero(d)
    THEN IF U64IsZero(n) THEN [ kind |-> "nan", num |-> n, den |-> d ]
         ELSE [ kind |-> "inf", num |-> n, den |-> d ]
    ELSE Finite(n, d)

\* x > 0
DoublePositive(x) == x.kind = "inf" \/ (x.kind = "finite" /\ ~U64IsZero(x.num))

\* slip: the width used as it is
eventPropHeight_NoGuard(height, width) ==
    LET prop == DoubleDiv(height, width)
    IN  IF DoublePositive(prop) THEN prop ELSE Finite(U64(1), U64(1))

\* eventPropHeight, given what eventHeight(e) and eventWidth(e) returned
eventPropHeight(height, width) ==
    LET w == IF U64IsZero(width) THEN U64(1) ELSE width
        prop == DoubleDiv(height, w)
    IN  IF DoublePositive(prop) THEN prop ELSE Finite(U64(1), U64(1))

\* ------------------------------------------------------- mtx::accessors
\* QDateTime::fromMSecsSinceEpoch
fromMSecsSinceEpoch(ms) == [ msecs |-> ms ]

Projections ==
    { "event_id", "room_id", "sender", "origin_server_ts", "filename",
      "msg_type", "room_name", "room_topic", "call_type", "body",
      "formatted_body", "file", "thumbnail_file", "url", "thumbnail_url",
      "duration", "blurhash", "mimetype", "relations", "transaction_id",
      "filesize", "media_height", "media_width", "is_state_event" }

\* the result of mtx::accessors::fn(e): std::visit of fn's visitor on e
Visit(fn, e) ==
    CASE fn = "event_id" -> Ret(e.event_id)
      [] fn = "room_id" -> Ret(e.room_id)
      [] fn = "sender" -> Ret(e.sender)
      [] fn = "origin_server_ts" -> Ret(fromMSecsSinceEpoch(e.origin_server_ts))
      [] fn = "filename" -> Ret(EventFilename(e))
      [] fn = "msg_type" -> EventMsgType(e)
      [] fn = "room_name" -> Ret(EventRoomName(e))
      [] fn = "room_topic" -> Ret(EventRoomTopic(e))
      [] fn = "call_type" -> Ret(CallType(e))
      [] fn = "body" -> Ret(EventBody(e))
      [] fn = "formatted_body" -> Ret(EventFormattedBody(e))
      [] fn = "file" -> Ret(EventFile(e))
      [] fn = "thumbnail_file" -> Ret(EventThumbnailFile(e))
      [] fn = "url" -> Ret(EventUrl(e))
      [] fn = "thumbnail_url" -> Ret(EventThumbnailUrl(e))
      [] fn = "duration" -> Ret(EventDuration(e))
      [] fn = "blurhash" -> Ret(EventBlurhash(e))
      [] fn = "mimetype" -> Ret(EventMimeType(e))
      [] fn = "relations" -> Ret(EventRelations(e))
      [] fn = "transaction_id" -> Ret(EventTransactionId(e))
      [] fn = "filesize" -> Ret(EventFilesize(e))
      [] fn = "media_height" -> Ret(EventMediaHeight(e))
      [] fn = "media_width" -> Ret(EventMediaWidth(e))
      [] fn = "is_state_event" -> Ret(IsStateEvent(e))

\* ------------------------------------------------------------------- state
VARIABLES
    event,      \* the TimelineEvents value the caller holds
    orig,       \* history: the event as it was handed to this file
    last_set,   \* history: the Relations of the latest set_relations call, if any
    out,        \* the function called last and what it returned or threw
    arg         \* the arguments of the call besides the event

vars == << event, orig, last_set, out, arg >>

Init ==
    /\ \E T \in Types : event \in Events(T)
    /\ orig = event
    /\ last_set = nullopt
    /\ out = [ fn |-> "none", status |-> "ok", val |-> "" ]
    /\ arg = << >>

\* a call of the read-only accessor fn on the held event
Project(fn) ==
    /\ out' = [ fn |-> fn ] @@ Visit(fn, event)
    /\ arg' = << >>
    /\ UNCHANGED << event, orig, last_set >>

event_id == Project("event_id")

room_id == Project("room_id")

sender == Project("sender")

origin_server_ts == Project("origin_server_ts")

filename == Project("filename")

msg_type == Project("msg_type")

room_name == Project("room_name")

room_topic == Project("room_topic")

call_type == Project("call_type")

body == Project("body")

formatted_body == Project("formatted_body")

file == Project("file")

thumbnail_file == Project("thumbnail_file")

url == Project("url")

thumbnail_url == Project("thumbnail_url")

duration == Project("duration")

blurhash == Project("blurhash")

mimetype == Project("mimetype")

relations == Project("relations")

transaction_id == Project("transaction_id")

filesize == Project("filesize")

media_height == Project("media_height")

media_width == Project("media_width")

is_state_event == Project("is_state_event")

set_relations ==
    \E r \in RelValues :
        /\ event' = SetEventRelations(event, r)
        /\ last_set' = Some(r)
        /\ out' = [ fn |-> "set_relations", status |-> "ok", val |-> "" ]
        /\ arg' = << r >>
        /\ UNCHANGED orig

\* the dimensions eventHeight(e) and eventWidth(e) may return
PropDims == Dims \cup { U64(50), ToU64(-1) }

PropHeight ==
    \E height \in PropDims, width \in PropDims :
        /\ out' = [ fn |-> "eventPropHeight", status |-> "ok",
                    val |-> eventPropHeight(height, width) ]
        /\ arg' = << height, width >>
        /\ UNCHANGED << event, orig, last_set >>

Next ==
    \/ event_id \/ room_id \/ sender \/ origin_server_ts \/ filename
    \/ msg_type \/ room_name \/ room_topic \/ call_type \/ body
    \/ formatted_body \/ file \/ thumbnail_file \/ url \/ thumbnail_url
    \/ duration \/ blurhash \/ mimetype \/ relations \/ transaction_id
    \/ filesize \/ media_height \/ media_width \/ is_state_event
    \/ set_relations \/ PropHeight

Spec == Init /\ [][Next]_vars

\* ================================================================== claims

\* C1: every projection, on every variant, returns without throwing; msg_type
\* on a content whose optional msgtype holds no value returns Unknown and body
\* on a content whose optional body holds no value returns "".
C1_Totality ==
    out.fn \in Projections =>
        /\ out.status = "ok"
        /\ ( /\ out.fn = "msg_type"
             /\ "msgtype" \in DOMAIN event.content
             /\ "msgtype" \in OptionalStringMembers(event.type)
             /\ ~has_value(event.content.msgtype) ) => out.val = "Unknown"
        /\ ( /\ out.fn = "body"
             /\ "body" \in DOMAIN event.content
             /\ "body" \in OptionalStringMembers(event.type)
             /\ ~has_value(event.content.body) ) => out.val = ""

\* C2: on a variant whose content has no relations member, set_relations
\* leaves the event as it was handed in, whatever Relations are passed and
\* however often: every projection returns what it returned before, and
\* relations returns the empty Relations.
C2_MutatorNoOp ==
    "relations" \notin DOMAIN orig.content =>
        /\ event = orig
        /\ \A fn \in Projections : Visit(fn, event) = Visit(fn, orig)
        /\ Visit("relations", event) = Ret(EmptyRelations)
        /\ out.fn = "set_relations" => out.status = "ok"

C2_Witness ==
    /\ "relations" \notin DOMAIN orig.content
    /\ out.fn = "set_relations"
    /\ has_value(last_set) /\ last_set[1] # EmptyRelations

\* C3: on a variant whose content has a relations member, after any number of
\* set_relations calls relations returns the Relations of the latest call,
\* the held variant is the one handed in, and every other projection returns
\* what it returned on the event handed in.
C3_MutatorEffect ==
    ("relations" \in DOMAIN orig.content /\ has_value(last_set)) =>
        /\ Visit("relations", event) = Ret(last_set[1])
        /\ event.type = orig.type
        /\ DOMAIN event.content = DOMAIN orig.content
        /\ \A fn \in Projections \ { "relations" } : Visit(fn, event) = Visit(fn, orig)

C3_Witness ==
    /\ "relations" \in DOMAIN orig.content
    /\ has_value(last_set)
    /\ last_set[1] # orig.content.relations
    /\ orig.content.relations # EmptyRelations
    /\ out.fn = "relations" /\ out.val = last_set[1]

\* C4: url returns the url of the file descriptor when the content holds one
\* and the plain url member otherwise; thumbnail_url returns the url of
\* info.thumbnail_file when info holds one and the plain info.thumbnail_url
\* otherwise; both return "" on a content without the url member.
C4_UrlPreference ==
    /\ out.fn = "url" =>
          out.val =
             IF "url" \notin DOMAIN event.content THEN ""
             ELSE IF "file" \in DOMAIN event.content /\ has_value(event.content.file)
                  THEN event.content.file[1].url
                  ELSE event.content.url
    /\ out.fn = "thumbnail_url" =>
          out.val =
             IF ~HasInfo(event, "thumbnail_url") THEN ""
             ELSE IF HasInfo(event, "thumbnail_file")
                       /\ has_value(event.content.info.thumbnail_file)
                  THEN event.content.info.thumbnail_file[1].url
                  ELSE event.content.info.thumbnail_url
    /\ (out.fn = "thumbnail_url" /\ has_value(EventThumbnailFile(event))) =>
          out.val = EventThumbnailFile(event)[1].url

C6_Filename ==
    out.fn = "filename" =>
        out.val =
           CASE event.type = "msg_File" ->
                    IF event.content.filename = "" THEN event.content.body
                    ELSE event.content.filename
             [] event.type \in { "msg_Audio", "msg_Video", "msg_Image" } ->
                    event.content.body
             [] OTHER -> ""

C6_Witness ==
    /\ out.fn = "filename" /\ event.type = "msg_File"
    /\ event.content.filename = "" /\ event.content.body = "doc.pdf"
    /\ out.val = "doc.pdf"

\* the string s with every upper-case letter replaced by its lower-case one
Lowered(s) == [ i \in 1..Len(s) |-> tolower(s[i]) ]

\* s has the contiguous substring m
Contains(s, m) ==
    \E i \in 0..(Len(s) - Len(m)) : SubSeq(s, i + 1, i + Len(m)) = m

\* C7: on the call invite, call_type is "video" exactly when the SDP offer
\* contains "m=video" compared without regard to case, at any position, and
\* "voice" otherwise; on every other variant it is "".
C7_CallType ==
    out.fn = "call_type" =>
        out.val =
           IF event.type = "voip_CallInvite"
           THEN IF Contains(Lowered(event.content.offer.sdp),
                            << "m", "=", "v", "i", "d", "e", "o" >>)
                THEN "video" ELSE "voice"
           ELSE ""

C7_Witness ==
    /\ out.fn = "call_type" /\ event.type = "voip_CallInvite"
    /\ event.content.offer.sdp = << "m", "M", "=", "V", "I", "D", "E", "O" >>
    /\ out.val = "video"

\* C8: is_state_event is true exactly on the variants that carry a state_key.
C8_IsStateEvent ==
    out.fn = "is_state_event" => out.val = ("state_key" \in DOMAIN event)

C8_Witness ==
    /\ out.fn = "is_state_event"
    /\ event.type = "state_Member"
    /\ out.val = TRUE

\* C9: for a height h and a width w the aspect ratio is finite and positive:
\* h/w when both are positive, h/1 when w = 0 and h is positive, and 1 when
\* h = 0.
C9_AspectRatio ==
    out.fn = "eventPropHeight" =>
        LET h == arg[1]
            w == arg[2]
            one == [ i \in 1..U64Limbs |-> IF i = U64Limbs THEN 1 ELSE 0 ]
        IN  /\ out.val.kind = "finite"
            /\ ~U64IsZero(out.val.num) /\ ~U64IsZero(out.val.den)
            /\ (~U64IsZero(h) /\ ~U64IsZero(w)) => (out.val.num = h /\ out.val.den = w)
            /\ (~U64IsZero(h) /\ U64IsZero(w)) => (out.val.num = h /\ out.val.den = one)
            /\ U64IsZero(h) => (out.val.num = one /\ out.val.den = one)

C9_Witness ==
    /\ out.fn = "eventPropHeight"
    /\ arg = << U64(50), U64(0) >>
    /\ out.val = Finite(U64(50), U64(1))

\* C10: formatted_body returns the stored formatted body exactly when the
\* content has a formatted_body member and its format is
\* "org.matrix.custom.html", and "" in every other case; body of a text
\* message returns its body.
C10_FormattedBody ==
    /\ out.fn = "formatted_body" =>
          out.val =
             IF "formatted_body" \in DOMAIN event.content
                  /\ event.content.format = "org.matrix.custom.html"
             THEN event.content.formatted_body
             ELSE ""
    /\ (out.fn = "body" /\ event.type = "msg_Text") => out.val = event.content.body

C10_Witness ==
    /\ out.fn = "formatted_body" /\ event.type = "msg_Text"
    /\ event.content.format = "org.matrix.custom.html"
    /\ event.content.formatted_body = "<b>hi</b>"
    /\ out.val = "<b>hi</b>"

====
